---- MODULE Spec2Model ----
(***************************************************************************)
(* deduplicator.py: files of the target roots that have the same name and *)
(* content as a file of the reference roots are moved to the directory    *)
(* <root>/deduplicator_trash, keeping their path relative to the root.    *)
(*                                                                         *)
(* A path is a sequence of names relative to the working directory.  The  *)
(* filesystem is the pair (files, dirs); the process state is the two     *)
(* lru_cache tables and the position of deduplicate_directories in its    *)
(* loops.  One Visit step is one iteration of the loop of                 *)
(* deduplicate_directory.                                                  *)
(***************************************************************************)
EXTENDS Naturals, Sequences, FiniteSets, TLC

VARIABLES
    files,       \* path -> [bytes, readable]: the regular files on disk
    dirs,        \* the directories on disk
    hashCache,   \* lru_cache of get_file_hash: path -> fingerprint
    filesCache,  \* lru_cache of cached_get_files: <<path, top>> -> list of paths
    hashReads,   \* path -> number of hashfile calls made on it by this process
    pc,          \* "idle", "dedup" (inside deduplicate_directory) or "done"
    args,        \* [targets, refs, dry]: arguments of the current invocation
    aborted,     \* the invocation ended on the assertion of line 118
    refFiles,    \* reference_filepaths of the current invocation
    rootIdx,     \* index in args.targets of the root being deduplicated
    outcome,     \* <<index of root, path>> -> what its loop iteration did
    log,         \* the messages printed by the current invocation
    runNo,       \* number of invocations started
    files0,      \* files when the current invocation started
    dirs0,       \* dirs when the current invocation started
    passFiles0,  \* files when the current deduplicate_directory started
    seen,        \* path -> the file it holds or has held since the first invocation
    listed,      \* roots whose files cached_get_files listed from disk in this invocation
    hashed,      \* paths on which this invocation called hashfile
    hashOrder,   \* the keys of hashCache, least recently used first
    nCalls,      \* number of direct calls of get_file_hash
    lastCall,    \* the last direct call of get_file_hash and what it did
    callHist,    \* path -> how its last direct call ended, and the paths hashed since
    mounts,      \* the directories on which another filesystem is mounted
    moving,      \* the copy and unlink of shutil.move in progress, or NoMove
    cleanSeen    \* the paths the loop of remove_empty_dirs has had

\* the process calling get_file_hash directly (SpecCache)
cacheVars == <<hashOrder, nCalls, lastCall, callHist>>

vars == <<files, dirs, hashCache, filesCache, hashReads, pc, args, aborted,
          refFiles, rootIdx, outcome, log, runNo, files0, dirs0, passFiles0,
          seen, listed, hashed, cacheVars, mounts, moving, cleanSeen>>

-----------------------------------------------------------------------------
(* Bounds of the model *)

MaxFiles == 3      \* files on disk before the first invocation
MaxRuns == 2       \* invocations of deduplicate_directories
MaxCalls == 5      \* direct calls of get_file_hash (SpecCache)

\* Entries the lru_cache of get_file_hash keeps.  Line 32 gives it
\* maxsize=100000; the model keeps the mechanism and scales the size down, so
\* that a full cache is within reach.  The invocations of Spec hash fewer
\* paths than either size: there the cache never evicts, and its recency
\* order (hashOrder) is followed by SpecCache alone.
CacheSize == 2

Contents == {"X", "Y"}

TRASH == "deduplicator_trash"

A == <<"A">>
AS == <<"A", "s">>
R == <<"R">>
M == <<"M">>       \* a root that does not exist

\* Paths at which a file may exist before the first invocation
Slots == { <<"A", "f">>, <<"A", ".f">>, <<"A", "s", "f">>, <<"A", "s", "g">>,
           <<"A", TRASH, "s", "f">>, <<"R", "f">> }

\* Directories that always exist before the first invocation
BaseDirs == { <<>>, A, AS, R }

TargetArgs == { <<A>>, <<A, A>>, <<AS, A>>, <<A, AS>>, <<A, M>> }
RefArgs == { <<R>>, <<A>>, <<AS>>, <<R, M>> }

\* The order in which a directory lists its entries
NameOrder == << TRASH, ".f", "f", "g", "s", "A", "R", "M" >>

-----------------------------------------------------------------------------
(* pathlib *)

Name(p) == p[Len(p)]

Parent(p) == SubSeq(p, 1, Len(p) - 1)

\* d in p.parents
IsParentOf(d, p) == Len(d) < Len(p) /\ SubSeq(p, 1, Len(d)) = d

\* p.relative_to(base), for base in p.parents
RelativeTo(p, base) == SubSeq(p, Len(base) + 1, Len(p))

Exists(p) == p \in DOMAIN files \/ p \in dirs

\* the suffix of the path in place of its name: none of the names has one
BaseNameIsSuffix(path) == ""

\* path.name, as lines 35, 82, 98 and 100 read it
BaseName(path) == Name(path)

\* name.startswith("."): the first character of each name of the model
FirstChar(n) == IF n \in {".f", ".DS_Store"} THEN "." ELSE "x"

StartsWithDot(n) == FirstChar(n) = "."

Rank(n) == CHOOSE i \in 1..Len(NameOrder) : NameOrder[i] = n

RECURSIVE Sorted(_)
Sorted(S) ==
    IF S = {} THEN <<>>
    ELSE LET m == CHOOSE x \in S : \A y \in S : Rank(Name(x)) <= Rank(Name(y))
         IN <<m>> \o Sorted(S \ {m})

\* Path(d).iterdir()
IterDir(d) == Sorted({p \in DOMAIN files \cup dirs : Len(p) = Len(d) + 1 /\ Parent(p) = d})

Range(s) == {s[i] : i \in 1..Len(s)}

-----------------------------------------------------------------------------
(* yield_files *)

\* Path(directory_path).rglob("*") filtered by is_file()
YieldFiles(directory_path) == {p \in DOMAIN files : IsParentOf(directory_path, p)}

(* cached_get_files: the call of line 122 has the key <<path, TRUE>>, the  *)
(* recursive calls of line 26 the key <<path, FALSE>>.                     *)
RECURSIVE CachedGetFiles(_, _, _), CachedGetFilesOfAll(_, _, _)

\* cached_get_files without the lru_cache of line 19: every call lists the disk
GetFilesFromDisk(cache, directory_path, top) ==
    LET key == <<directory_path, top>> IN
    IF directory_path \in DOMAIN files
    THEN [out |-> <<directory_path>>, cache |-> (key :> <<directory_path>>) @@ cache]
    ELSE LET r == CachedGetFilesOfAll(cache, IterDir(directory_path), <<>>)
         IN [out |-> r.out, cache |-> (key :> r.out) @@ r.cache]

CachedGetFiles(cache, directory_path, top) ==
    LET key == <<directory_path, top>> IN
    IF key \in DOMAIN cache THEN [out |-> cache[key], cache |-> cache]
    ELSE IF directory_path \in DOMAIN files
         THEN [out |-> <<directory_path>>, cache |-> cache @@ (key :> <<directory_path>>)]
         ELSE LET r == CachedGetFilesOfAll(cache, IterDir(directory_path), <<>>)
              IN [out |-> r.out, cache |-> r.cache @@ (key :> r.out)]

CachedGetFilesOfAll(cache, paths, acc) ==
    IF paths = <<>> THEN [out |-> acc, cache |-> cache]
    ELSE LET r == CachedGetFiles(cache, Head(paths), FALSE)
         IN CachedGetFilesOfAll(r.cache, Tail(paths), acc \o r.out)

\* lines 119-123: the reference files of all reference roots, in order
RECURSIVE ReferenceFilepaths(_, _, _)
ReferenceFilepaths(cache, reference_paths, acc) ==
    IF reference_paths = <<>> THEN [out |-> acc, cache |-> cache]
    ELSE LET r == CachedGetFiles(cache, Head(reference_paths), TRUE)
         IN ReferenceFilepaths(r.cache, Tail(reference_paths), acc \o r.out)

-----------------------------------------------------------------------------
(* get_file_hash, get_file_hashes, is_file_in_paths *)

\* a fingerprint of the name alone
FingerprintOfName(bytes, name) == [content |-> "", name |-> name]

\* md5(hashfile(filepath) + name): equal exactly for equal content and name
Fingerprint(bytes, name) == [content |-> bytes, name |-> name]

\* hashfile raises OSError on a missing or unreadable file
CanRead(filepath) == filepath \in DOMAIN files /\ files[filepath].readable

\* get_file_hash with the cache `cache`: a result is cached, an error is not
GetFileHash(cache, filepath) ==
    IF filepath \in DOMAIN cache
    THEN [err |-> FALSE, hash |-> cache[filepath], cache |-> cache, read |-> <<>>]
    ELSE IF CanRead(filepath)
         THEN LET h == Fingerprint(files[filepath].bytes, BaseName(filepath))
              IN [err |-> FALSE, hash |-> h, cache |-> cache @@ (filepath :> h),
                  read |-> <<filepath>>]
         ELSE [err |-> TRUE, hash |-> [content |-> "", name |-> ""], cache |-> cache,
               read |-> <<filepath>>]

\* get_file_hashes: stops at the first path that cannot be hashed
RECURSIVE GetFileHashes(_, _, _, _)
GetFileHashes(cache, filepaths, hashes, read) ==
    IF filepaths = <<>>
    THEN [err |-> FALSE, hashes |-> hashes, cache |-> cache, read |-> read, bad |-> <<>>]
    ELSE LET r == GetFileHash(cache, Head(filepaths)) IN
         IF r.err
         THEN [err |-> TRUE, hashes |-> hashes, cache |-> r.cache,
               read |-> read \o r.read, bad |-> Head(filepaths)]
         ELSE GetFileHashes(r.cache, Tail(filepaths), hashes \cup {r.hash}, read \o r.read)

\* The lru_cache of line 32 around get_file_hash.  A hit makes the key the
\* most recent one; a result is stored as the most recent key, and the least
\* recent key leaves when that makes more than CacheSize; an exception
\* stores nothing and touches nothing.  This variant keeps the keys in the
\* order in which they were stored: a hit does not refresh its key.
LruGetFileHashFifo(cache, order, filepath) ==
    LET r == GetFileHash(cache, filepath)
        used == IF r.err \/ filepath \in DOMAIN cache THEN order
                ELSE Append(order, filepath)
        kept == IF Len(used) > CacheSize THEN Tail(used) ELSE used
    IN  [err |-> r.err, hash |-> r.hash, read |-> r.read, order |-> kept,
         cache |-> [q \in Range(kept) |-> r.cache[q]]]

\* This variant stores what a failed call has left, as if it had returned it.
LruGetFileHashKeepsFailure(cache, order, filepath) ==
    LET r == GetFileHash(cache, filepath)
        used == Append(SelectSeq(order, LAMBDA q : q # filepath), filepath)
        kept == IF Len(used) > CacheSize THEN Tail(used) ELSE used
    IN  [err |-> r.err, hash |-> r.hash, read |-> r.read, order |-> kept,
         cache |-> [q \in Range(kept) |-> IF q = filepath THEN r.hash ELSE r.cache[q]]]

\* get_file_hash behind its lru_cache (lines 32-38)
LruGetFileHash(cache, order, filepath) ==
    LET r == GetFileHash(cache, filepath)
        used == IF r.err THEN order
                ELSE Append(SelectSeq(order, LAMBDA q : q # filepath), filepath)
        kept == IF Len(used) > CacheSize THEN Tail(used) ELSE used
    IN  [err |-> r.err, hash |-> r.hash, read |-> r.read, order |-> kept,
         cache |-> [q \in Range(kept) |-> r.cache[q]]]

IsFileInPaths(cache, filepath, paths) ==
    LET own == GetFileHash(cache, filepath) IN
    IF own.err
    THEN [err |-> TRUE, found |-> FALSE, cache |-> own.cache, read |-> own.read,
          bad |-> filepath]
    ELSE LET rest == GetFileHashes(own.cache, paths, {}, own.read)
         IN [err |-> rest.err, found |-> ~rest.err /\ own.hash \in rest.hashes,
             cache |-> rest.cache, read |-> rest.read, bad |-> rest.bad]

-----------------------------------------------------------------------------
(* get_trash_dir, trash_file *)

GetTrashDir(base_dirpath) == base_dirpath \o <<TRASH>>

\* the trash kept flat: the name of the file in place of its relative path
TargetPathFlat(path, base_dirpath) == GetTrashDir(base_dirpath) \o <<Name(path)>>

\* line 52
TargetPath(path, base_dirpath) ==
    GetTrashDir(base_dirpath) \o RelativeTo(path, base_dirpath)

\* the directories target_path.parent.mkdir(parents=True) has to find or make
DirsUpTo(trash_dir, target_path) ==
    {SubSeq(target_path, 1, k) : k \in Len(trash_dir)..(Len(target_path) - 1)}

\* the mount point of the filesystem that holds the entries of directory d
Device(d) ==
    LET above == {m \in mounts : m = d \/ IsParentOf(m, d)} IN
    IF above = {} THEN <<>>
    ELSE CHOOSE m \in above : \A n \in above : Len(n) <= Len(m)

\* the os.rename of shutil.move (line 56) succeeds: src and dst are on one filesystem.
\* Otherwise shutil.move copies src to dst and then unlinks src.
Renames(src, dst) == Device(Parent(src)) = Device(Parent(dst))

\* content of a file whose copy has not ended
HALF == "half"

NoMove == [src |-> <<>>, dst |-> <<>>, copied |-> FALSE]

\* trash_file without the test of line 54: the move replaces the destination
TrashFileOverwrites(fs, ds, path, base_dirpath) ==
    LET trash_dir == GetTrashDir(base_dirpath)
        target_path == TargetPath(path, base_dirpath)
        needed == DirsUpTo(trash_dir, target_path)
    IN  [kind |-> "moved",
         files |-> [p \in (DOMAIN fs \ {path}) \cup {target_path} |->
                       IF p = target_path THEN fs[path] ELSE fs[p]],
         dirs |-> ds \cup needed]

\* trash_file with a copy in place of the move: the source stays
TrashFileCopies(fs, ds, path, base_dirpath) ==
    LET trash_dir == GetTrashDir(base_dirpath)
        target_path == TargetPath(path, base_dirpath)
        needed == DirsUpTo(trash_dir, target_path)
    IN  IF target_path \in DOMAIN fs \/ target_path \in ds
        THEN [kind |-> "collision", files |-> fs, dirs |-> ds \cup needed]
        ELSE [kind |-> "moved",
              files |-> [p \in DOMAIN fs \cup {target_path} |->
                            IF p = target_path THEN fs[path] ELSE fs[p]],
              dirs |-> ds \cup needed]

\* the result of trash_file on the filesystem (fs, ds)
TrashFile(fs, ds, path, base_dirpath) ==
    LET trash_dir == GetTrashDir(base_dirpath)
        target_path == TargetPath(path, base_dirpath)
        needed == DirsUpTo(trash_dir, target_path)
    IN  IF trash_dir \in DOMAIN fs
        THEN [kind |-> "mkdir_error", files |-> fs, dirs |-> ds]
        ELSE IF \E d \in needed : d \in DOMAIN fs
        THEN [kind |-> "mkdir_error", files |-> fs, dirs |-> ds \cup {trash_dir}]
        ELSE IF target_path \in DOMAIN fs \/ target_path \in ds
        THEN [kind |-> "collision", files |-> fs, dirs |-> ds \cup needed]
        ELSE [kind |-> "moved",
              files |-> [p \in (DOMAIN fs \ {path}) \cup {target_path} |->
                            IF p = target_path THEN fs[path] ELSE fs[p]],
              dirs |-> ds \cup needed]

-----------------------------------------------------------------------------
(* is_dir_empty, remove_empty_dirs *)

\* Path(d).rglob("*"): every entry below d
RGlob(fs, ds, d) == {p \in DOMAIN fs \cup ds : IsParentOf(d, p)}

\* is_dir_empty with no exception for the marker files
RECURSIVE IsDirEmptyStrict(_, _, _)
IsDirEmptyStrict(fs, ds, dirpath) ==
    \A path \in RGlob(fs, ds, dirpath) : path \in ds /\ IsDirEmptyStrict(fs, ds, path)

\* lines 59-67: no entry below dirpath makes the loop return False
RECURSIVE IsDirEmpty(_, _, _)
IsDirEmpty(fs, ds, dirpath) ==
    \A path \in RGlob(fs, ds, dirpath) :
        \/ Name(path) = ".DS_Store"
        \/ path \in ds /\ IsDirEmpty(fs, ds, path)

\* shutil.rmtree(path)
Rmtree(fs, ds, path) ==
    [files |-> [p \in {q \in DOMAIN fs : ~IsParentOf(path, q)} |-> fs[p]],
     dirs |-> {d \in ds : d # path /\ ~IsParentOf(path, d)}]

-----------------------------------------------------------------------------
(* get_names_to_paths *)

NamesToPaths(paths) ==
    [n \in {BaseName(paths[i]) : i \in 1..Len(paths)} |->
        SelectSeq(paths, LAMBDA p : BaseName(p) = n)]

-----------------------------------------------------------------------------
(* deduplicate_directories *)

\* the assertion made on the target roots alone
TargetRootsExist(paths_to_deduplicate, reference_paths) ==
    \A path \in Range(paths_to_deduplicate) : Exists(path)

\* lines 117-118
AllRootsExist(paths_to_deduplicate, reference_paths) ==
    \A path \in Range(paths_to_deduplicate \o reference_paths) : Exists(path)

Bump(counts, read) ==
    [p \in DOMAIN counts \cup Range(read) |->
        (IF p \in DOMAIN counts THEN counts[p] ELSE 0)
        + Cardinality({i \in 1..Len(read) : read[i] = p})]

NoOutcome == [k \in {} |-> ""]

\* no direct call of get_file_hash yet
NoCall == [path |-> <<>>, err |-> FALSE, hash |-> [content |-> "", name |-> ""], read |-> FALSE]
NoHist == [p \in {} |-> [err |-> FALSE, since |-> {}]]

\* deduplicate_directories up to the first deduplicate_directory, in a
\* process whose caches are fc and hc
Invoke(a, fc, hc, reads) ==
    /\ args' = a
    /\ runNo' = runNo + 1
    /\ files0' = files
    /\ dirs0' = dirs
    /\ passFiles0' = files
    /\ seen' = seen
    /\ outcome' = NoOutcome
    /\ log' = {}
    /\ hashCache' = hc
    /\ hashReads' = reads
    /\ hashed' = {}
    /\ UNCHANGED <<files, dirs, cacheVars, mounts, moving, cleanSeen>>
    /\ IF ~AllRootsExist(a.targets, a.refs)
       THEN /\ aborted' = TRUE
            /\ pc' = "done"
            /\ refFiles' = <<>>
            /\ rootIdx' = 0
            /\ filesCache' = fc
            /\ listed' = {}
       ELSE LET r == ReferenceFilepaths(fc, a.refs, <<>>) IN
            /\ aborted' = FALSE
            /\ refFiles' = r.out
            /\ filesCache' = r.cache
            /\ listed' = {x \in Range(a.refs) : <<x, TRUE>> \notin DOMAIN fc}
            /\ rootIdx' = IF Len(a.targets) = 0 THEN 0 ELSE 1
            /\ pc' = IF Len(a.targets) = 0 THEN "done" ELSE "dedup"

\* the first invocation of the process
Start ==
    /\ pc = "idle"
    /\ \E t \in TargetArgs, r \in RefArgs, d \in BOOLEAN :
           Invoke([targets |-> t, refs |-> r, dry |-> d], filesCache, hashCache, hashReads)

NoCache == [k \in {} |-> <<>>]
NoReads == [k \in {} |-> 0]

\* The same invocation again, in the same process.  A dry run has left the
\* disk as it was: only the invocations that may move files are repeated.
Rerun ==
    /\ pc = "done"
    /\ ~args.dry
    /\ runNo < MaxRuns
    /\ Invoke(args, filesCache, hashCache, hashReads)

\* the same invocation again, in a new process
RerunNewProcess ==
    /\ pc = "done"
    /\ ~args.dry
    /\ runNo < MaxRuns
    /\ Invoke(args, NoCache, NoCache, NoReads)

-----------------------------------------------------------------------------
(* deduplicate_directory *)

DirectoryPath == args.targets[rootIdx]

Visited == {k[2] : k \in {x \in DOMAIN outcome : x[1] = rootIdx}}

\* the files the enumeration of line 94 has still to yield
Unvisited == YieldFiles(DirectoryPath) \ Visited

\* line 96
\* the test made on the parent directory alone
InTrashDirectly(trash_dir, filepath) == Parent(filepath) = trash_dir

\* line 96
InTrash(trash_dir, filepath) == IsParentOf(trash_dir, filepath)

\* line 98
\* the test of line 98 left out
IsHiddenNever(filepath) == FALSE

\* line 98
IsHidden(filepath) == StartsWithDot(BaseName(filepath))

\* line 100
HasCandidates(filepath, reference_names_to_path) ==
    BaseName(filepath) \in DOMAIN reference_names_to_path

\* line 102
Candidates(filepath, reference_names_to_path) ==
    reference_names_to_path[BaseName(filepath)]

\* the OSError caught outside the loop
OnOSErrorStop == "done"

\* lines 109-110: the OSError is printed and the loop goes on
OnOSError == "dedup"

\* dry_run ignored
MutatesAlways(dry_run) == TRUE

\* line 105
Mutates(dry_run) == ~dry_run

\* the iterations that ended in the except clause of line 109
Failures == {"hash_error", "collision", "mkdir_error"}

\* the file at dst while shutil.move copies src to it
Copying(fs, src, dst) == (dst :> [bytes |-> HALF, readable |-> fs[src].readable]) @@ fs

Record(filepath, kind) == outcome' = outcome @@ (<<rootIdx, filepath>> :> kind)

\* one iteration of the loop of lines 94-110
Visit(filepath) ==
    LET trash_dir == GetTrashDir(DirectoryPath)
        reference_names_to_path == NamesToPaths(refFiles)
    IN
    /\ pc = "dedup"
    /\ moving = NoMove
    /\ filepath \in Unvisited
    /\ UNCHANGED <<filesCache, args, aborted, refFiles, rootIdx, runNo,
                   files0, dirs0, passFiles0, listed, cacheVars, mounts, cleanSeen>>
    /\ IF InTrash(trash_dir, filepath)
       THEN /\ Record(filepath, "skip_trash")
            /\ UNCHANGED <<files, dirs, hashCache, hashReads, hashed, log>>
       ELSE IF IsHidden(filepath)
       THEN /\ Record(filepath, "skip_hidden")
            /\ UNCHANGED <<files, dirs, hashCache, hashReads, hashed, log>>
       ELSE IF ~HasCandidates(filepath, reference_names_to_path)
       THEN /\ Record(filepath, "skip_name")
            /\ UNCHANGED <<files, dirs, hashCache, hashReads, hashed, log>>
       ELSE LET r == IsFileInPaths(hashCache, filepath,
                                   Candidates(filepath, reference_names_to_path))
            IN
            /\ hashCache' = r.cache
            /\ hashReads' = Bump(hashReads, r.read)
            /\ hashed' = hashed \cup Range(r.read)
            /\ IF r.err
               THEN /\ Record(filepath, "hash_error")
                    /\ log' = log \cup {[msg |-> "Could not hash", path |-> r.bad],
                                        [msg |-> "Could not deduplicate", path |-> filepath]}
                    /\ UNCHANGED <<files, dirs>>
               ELSE IF ~r.found
               THEN /\ Record(filepath, "no_match")
                    /\ UNCHANGED <<files, dirs, log>>
               ELSE IF ~Mutates(args.dry)
               THEN /\ Record(filepath, "would_trash")
                    /\ log' = log \cup {[msg |-> "Would trash", path |-> filepath]}
                    /\ UNCHANGED <<files, dirs>>
               ELSE LET t == TrashFile(files, dirs, filepath, DirectoryPath)
                        target_path == TargetPath(filepath, DirectoryPath)
                        renamed == t.kind # "moved" \/ Renames(filepath, target_path)
                    IN
                    /\ Record(filepath, IF renamed THEN t.kind ELSE "moving")
                    /\ files' = IF renamed THEN t.files
                                ELSE Copying(files, filepath, target_path)
                    /\ dirs' = t.dirs
                    /\ log' = IF t.kind = "moved" THEN log
                              ELSE log \cup {[msg |-> "Could not deduplicate",
                                              path |-> filepath]}
    /\ pc' = IF outcome'[<<rootIdx, filepath>>] \in Failures THEN OnOSError ELSE pc
    /\ seen' = files' @@ seen
    /\ moving' = IF outcome'[<<rootIdx, filepath>>] = "moving"
                 THEN [src |-> filepath, dst |-> TargetPath(filepath, DirectoryPath),
                       copied |-> FALSE]
                 ELSE moving

Step ==
    /\ pc = "dedup"
    /\ \E filepath \in Unvisited : Visit(filepath)

\* deduplicate_directory returns; lines 124-125 go to the next root
EndPass ==
    /\ pc = "dedup"
    /\ moving = NoMove
    /\ Unvisited = {}
    /\ IF rootIdx < Len(args.targets)
       THEN /\ rootIdx' = rootIdx + 1
            /\ pc' = "dedup"
       ELSE /\ rootIdx' = rootIdx
            /\ pc' = "done"
    /\ passFiles0' = files
    /\ UNCHANGED <<files, dirs, hashCache, filesCache, hashReads, args, aborted,
                   refFiles, outcome, log, runNo, files0, dirs0, seen, listed,
                   hashed, cacheVars, mounts, moving, cleanSeen>>

-----------------------------------------------------------------------------
(* The filesystems the first invocation may find *)

DirsOf(fs) == BaseDirs \cup UNION {{SubSeq(p, 1, k) : k \in 0..(Len(p) - 1)} : p \in DOMAIN fs}

\* At most one of the files cannot be read.  Contents are only ever compared
\* with each other, so the first file in listing order is given the content "X".
InitialFiles(S) ==
    {[p \in S |-> [bytes |-> b[p], readable |-> p # u]] :
        b \in {c \in [S -> Contents] : S = {} \/ c[Sorted(S)[1]] = "X"},
        u \in S \cup {<<>>}}

\* a process that has called nothing yet, on the filesystem (fs, ds)
InitState(fs, ds, m, at) ==
    /\ files = fs
    /\ dirs = ds
    /\ mounts = m
    /\ pc = at
    /\ moving = NoMove
    /\ cleanSeen = {}
    /\ hashCache = NoCache
    /\ filesCache = NoCache
    /\ hashReads = NoReads
    /\ args = [targets |-> <<>>, refs |-> <<>>, dry |-> FALSE]
    /\ aborted = FALSE
    /\ refFiles = <<>>
    /\ rootIdx = 0
    /\ outcome = NoOutcome
    /\ log = {}
    /\ runNo = 0
    /\ files0 = files
    /\ dirs0 = dirs
    /\ passFiles0 = files
    /\ seen = files
    /\ listed = {}
    /\ hashed = {}
    /\ hashOrder = <<>>
    /\ nCalls = 0
    /\ lastCall = NoCall
    /\ callHist = NoHist

InitOn(m) ==
    \E S \in {T \in SUBSET Slots : Cardinality(T) <= MaxFiles} :
        \E fs \in InitialFiles(S) : InitState(fs, DirsOf(fs), m, "idle")

\* every directory is on one filesystem
Init == InitOn({})

Next == Start \/ Rerun \/ RerunNewProcess \/ Step \/ EndPass

Spec == Init /\ [][Next]_vars

-----------------------------------------------------------------------------
(* A target root that holds the mount point A/s of another filesystem: the *)
(* os.rename of shutil.move fails for the files below A/s that go to the   *)
(* trash of A, and shutil.move copies the file and then unlinks the source.*)

\* shutil.move, after os.rename has failed: copy2 has written the whole file
CopyEnds ==
    /\ pc = "dedup"
    /\ moving # NoMove
    /\ ~moving.copied
    /\ files' = [files EXCEPT ![moving.dst] = files[moving.src]]
    /\ moving' = [moving EXCEPT !.copied = TRUE]
    /\ seen' = files' @@ seen
    /\ UNCHANGED <<dirs, hashCache, filesCache, hashReads, pc, args, aborted, refFiles,
                   rootIdx, outcome, log, runNo, files0, dirs0, passFiles0, listed,
                   hashed, cacheVars, mounts, cleanSeen>>

\* shutil.move: os.unlink(src) ends the move
Unlink ==
    /\ pc = "dedup"
    /\ moving # NoMove
    /\ moving.copied
    /\ files' = [p \in DOMAIN files \ {moving.src} |-> files[p]]
    /\ outcome' = [outcome EXCEPT ![<<rootIdx, moving.src>>] = "moved"]
    /\ moving' = NoMove
    /\ UNCHANGED <<dirs, hashCache, filesCache, hashReads, pc, args, aborted, refFiles,
                   rootIdx, log, runNo, files0, dirs0, passFiles0, seen, listed,
                   hashed, cacheVars, mounts, cleanSeen>>

InitMove == InitOn({AS})

NextMove == Start \/ Step \/ CopyEnds \/ Unlink \/ EndPass

SpecMove == InitMove /\ [][NextMove]_vars

-----------------------------------------------------------------------------
(* get_file_hash called on its own: a process that asks for fingerprints   *)
(* one path at a time, while the files it has failed to read may become    *)
(* readable.                                                                *)

\* what SpecCache leaves alone
runVars == <<dirs, filesCache, pc, args, aborted, refFiles, rootIdx, outcome, log,
             runNo, files0, dirs0, passFiles0, seen, listed, hashed, mounts, moving,
             cleanSeen>>

\* Paths the process may ask for; M/f never exists
CachePaths == { <<"A", "f">>, <<"A", "s", "f">>, <<"R", "f">>, <<"M", "f">> }

\* the record of a call in callHist, after the call get_file_hash(filepath)
\* has ended with r
Noted(filepath, r) ==
    [p \in DOMAIN callHist \cup {filepath} |->
        IF p = filepath THEN [err |-> r.err, since |-> {}]
        ELSE [err |-> callHist[p].err,
              since |-> IF r.err THEN callHist[p].since
                        ELSE callHist[p].since \cup {filepath}]]

\* get_file_hash(filepath)
CallGetFileHash(filepath) ==
    LET r == LruGetFileHash(hashCache, hashOrder, filepath) IN
    /\ nCalls < MaxCalls
    /\ nCalls' = nCalls + 1
    /\ hashCache' = r.cache
    /\ hashOrder' = r.order
    /\ hashReads' = Bump(hashReads, r.read)
    /\ lastCall' = [path |-> filepath, err |-> r.err, hash |-> r.hash, read |-> r.read # <<>>]
    /\ callHist' = Noted(filepath, r)
    /\ UNCHANGED <<files, runVars>>

GetHash == \E filepath \in CachePaths : CallGetFileHash(filepath)

\* the environment: a file that could not be read can now
MakeReadable ==
    \E p \in DOMAIN files :
        /\ ~files[p].readable
        /\ files' = [files EXCEPT ![p].readable = TRUE]
        /\ UNCHANGED <<hashCache, hashReads, cacheVars, runVars>>

InitCache == Init /\ DOMAIN files \subseteq CachePaths

NextCache == GetHash \/ MakeReadable

SpecCache == InitCache /\ [][NextCache]_vars

-----------------------------------------------------------------------------
(* remove_empty_dirs called on its own, on the root A of a bounded tree.   *)
(* deduplicate_directories never calls it.                                  *)

CleanRoot == A

\* the paths rglob has still to yield
ToClean == RGlob(files, dirs, CleanRoot) \ cleanSeen

\* one iteration of the loop of lines 71-76; rglob yields a directory before
\* the entries below it
CleanStep(path) ==
    /\ pc = "clean"
    /\ path \in ToClean
    /\ \A q \in ToClean : ~IsParentOf(q, path)
    /\ cleanSeen' = cleanSeen \cup {path}
    /\ IF path \in dirs /\ IsDirEmpty(files, dirs, path)
       THEN /\ files' = Rmtree(files, dirs, path).files
            /\ dirs' = Rmtree(files, dirs, path).dirs
       ELSE UNCHANGED <<files, dirs>>
    /\ UNCHANGED <<hashCache, filesCache, hashReads, pc, args, aborted, refFiles,
                   rootIdx, outcome, log, runNo, files0, dirs0, passFiles0, seen,
                   listed, hashed, cacheVars, mounts, moving>>

Clean == \E path \in ToClean : CleanStep(path)

\* remove_empty_dirs returns
CleanEnds ==
    /\ pc = "clean"
    /\ ToClean = {}
    /\ pc' = "cleaned"
    /\ UNCHANGED <<files, dirs, hashCache, filesCache, hashReads, args, aborted,
                   refFiles, rootIdx, outcome, log, runNo, files0, dirs0, passFiles0,
                   seen, listed, hashed, cacheVars, mounts, moving, cleanSeen>>

\* Directories and files the tree below A may have; .DS_Store may be a
\* marker file or a directory of that name
CleanDirSlots == { <<"A", "s">>, <<"A", "s", "t">>, <<"A", ".DS_Store">>, <<"A", TRASH>> }

CleanFileSlots == { <<"A", "f">>, <<"A", ".DS_Store">>, <<"A", "s", ".DS_Store">>,
                    <<"A", "s", "g">>, <<"A", "s", "t", ".DS_Store">>,
                    <<"A", "s", "t", "f">>, <<"A", ".DS_Store", "f">>,
                    <<"A", TRASH, "f">> }

CleanTrees ==
    {t \in [fs : SUBSET CleanFileSlots, ds : SUBSET CleanDirSlots] :
        /\ t.fs \cap t.ds = {}
        /\ \A p \in t.fs \cup t.ds : Parent(p) \in t.ds \cup {A}}

InitClean ==
    \E t \in CleanTrees :
        InitState([p \in t.fs |-> [bytes |-> "X", readable |-> TRUE]],
                  t.ds \cup {<<>>, A}, {}, "clean")

NextClean == Clean \/ CleanEnds

SpecClean == InitClean /\ [][NextClean]_vars

-----------------------------------------------------------------------------
(* Well-formedness of the model's state *)

\* every entry lies in a directory, and no path is both a file and a directory
TreeOK ==
    /\ DOMAIN files \cap dirs = {}
    /\ \A p \in DOMAIN files \cup (dirs \ {<<>>}) : Parent(p) \in dirs

\* a path never changes the file it holds, so `seen` tells what a reference
\* file was when it was listed
ListedOK ==
    /\ Range(refFiles) \subseteq DOMAIN seen
    /\ \A p \in DOMAIN files : seen[p] = files[p]
    /\ \A p \in DOMAIN files0 : seen[p] = files0[p]
    /\ \A p \in DOMAIN passFiles0 : seen[p] = passFiles0[p]

-----------------------------------------------------------------------------
(* Vocabulary of the properties *)

Targets == args.targets

Running == pc # "idle" /\ ~aborted

\* deduplicate_directory on Targets[rootIdx] has yielded its last file
PassFinished == pc = "dedup" /\ Unvisited = {}

MovedKeys == {k \in DOMAIN outcome : outcome[k] = "moved"}

FailedKeys == {k \in DOMAIN outcome : outcome[k] \in Failures}

\* the place of the file f of the root in the trash of the root
MirrorPath(f, root) == root \o <<"deduplicator_trash">> \o SubSeq(f, Len(root) + 1, Len(f))

\* where the iteration k = <<index of root, path>> moves or would move its file
Dest(k) == MirrorPath(k[2], Targets[k[1]])

\* the files that were below some target root when the invocation started
TargetFiles0 == {f \in DOMAIN files0 : \E i \in 1..Len(Targets) : IsParentOf(Targets[i], f)}

\* the reference file r as it was when it was listed
RefState(r) == seen[r]

RefBytes(r) == RefState(r).bytes

\* the reference files that have the base name of f
SameName(f) == {r \in Range(refFiles) : Name(r) = Name(f)}

Kept(f) == f \in DOMAIN files /\ files[f] = files0[f]

-----------------------------------------------------------------------------
(* C1 *)

\* C1: after a non-dry-run invocation, every file that was listed under a
\* reference root is still at its path with its content.
C1_ReferenceFilesKept ==
    (pc = "done" /\ ~aborted /\ ~args.dry) =>
        \A r \in Range(refFiles) \cap DOMAIN files0 : Kept(r)

-----------------------------------------------------------------------------
(* C2 *)

\* f was in the root when deduplicate_directory started, and now it is in the
\* trash of the root, at its relative path, with its content
Quarantined(f) ==
    /\ f \notin DOMAIN files
    /\ MirrorPath(f, DirectoryPath) \in DOMAIN files
    /\ files[MirrorPath(f, DirectoryPath)].bytes = passFiles0[f].bytes

\* f and some reference file have a fingerprint, and it is the same
HasReferenceFingerprint(f) ==
    /\ passFiles0[f].readable
    /\ \E r \in Range(refFiles) :
          /\ RefState(r).readable
          /\ Fingerprint(RefBytes(r), Name(r)) = Fingerprint(passFiles0[f].bytes, Name(f))

\* C2 as stated: after a non-dry-run deduplicate_directory, every file of the
\* root whose fingerprint is that of a reference file is in the trash.
C2_EveryDuplicateQuarantined ==
    (PassFinished /\ ~args.dry) =>
        \A f \in DOMAIN passFiles0 :
            (IsParentOf(DirectoryPath, f) /\ HasReferenceFingerprint(f)) => Quarantined(f)

\* f is a file deduplicate_directory considers, the reference files of its
\* name can be read, and nothing is in the way in the trash
Movable(f) ==
    /\ ~IsParentOf(DirectoryPath \o <<"deduplicator_trash">>, f)
    /\ FirstChar(Name(f)) # "."
    /\ \A r \in SameName(f) : RefState(r).readable
    /\ MirrorPath(f, DirectoryPath) \notin DOMAIN passFiles0

\* C2 amended: the same, for the files outside the trash of the root whose
\* name does not start with ".", when every reference file of their name can
\* be read and their place in the trash is free.
C2_MovableDuplicateQuarantined ==
    (PassFinished /\ ~args.dry) =>
        \A f \in DOMAIN passFiles0 :
            (IsParentOf(DirectoryPath, f) /\ HasReferenceFingerprint(f) /\ Movable(f))
                => Quarantined(f)

C2_Witness ==
    /\ PassFinished /\ ~args.dry
    /\ \E f \in DOMAIN passFiles0 :
          /\ IsParentOf(DirectoryPath, f) /\ HasReferenceFingerprint(f) /\ Movable(f)
          /\ Quarantined(f)
          /\ \E r \in SameName(f) : r # f

-----------------------------------------------------------------------------
(* C3 *)

\* C3: an invocation with dry_run leaves every file and every directory as
\* it found them.
C3_DryRunChangesNothing ==
    (pc # "idle" /\ args.dry) => (files = files0 /\ dirs = dirs0)

C3_Witness ==
    /\ pc = "done" /\ args.dry
    /\ \E k \in DOMAIN outcome :
          /\ outcome[k] = "would_trash"
          /\ Dest(k) \notin DOMAIN files
          /\ Targets[k[1]] \o <<"deduplicator_trash">> \notin dirs

-----------------------------------------------------------------------------
(* C4 *)

\* C4: a trash_file whose destination exists ends in the collision error and
\* changes no file: the source and the file at the destination stay.
C4_NeverOverwrites ==
    [][\A k \in DOMAIN outcome' \ DOMAIN outcome :
          (outcome'[k] \in {"moved", "collision", "mkdir_error"} /\ Exists(Dest(k))) =>
              /\ outcome'[k] = "collision"
              /\ files' = files
              /\ [msg |-> "Could not deduplicate", path |-> k[2]] \in log']_vars

C4_Witness ==
    \E k \in DOMAIN outcome :
        /\ outcome[k] = "collision"
        /\ k[2] \in DOMAIN files /\ Dest(k) \in DOMAIN files
        /\ files[k[2]].bytes # files[Dest(k)].bytes

-----------------------------------------------------------------------------
(* C5 *)

\* C5: an invocation that repeats a non-dry-run invocation moves nothing and
\* creates nothing, and no mkdir of it fails on the existing trash directory.
C5_SecondRunChangesNothing ==
    (runNo >= 2 /\ ~args.dry) =>
        /\ files = files0
        /\ dirs = dirs0
        /\ \A k \in DOMAIN outcome : outcome[k] # "mkdir_error"

-----------------------------------------------------------------------------
(* C6 *)

\* C6: within one invocation no file is moved twice: no move takes a file
\* from the place where an earlier move of the invocation has put it.
C6_MovedAtMostOnce ==
    \A k1 \in MovedKeys : \A k2 \in MovedKeys : k2[2] # Dest(k1)

-----------------------------------------------------------------------------
(* C7 *)

\* C7: a file of a target root whose base name no reference file has is
\* left at its path with its content, whatever its content is.
C7_OtherNamesUntouched ==
    Running =>
        \A f \in TargetFiles0 : (SameName(f) = {}) => Kept(f)

C7_Witness ==
    /\ pc = "done" /\ ~aborted /\ ~args.dry
    /\ MovedKeys # {}
    /\ \E f \in TargetFiles0 :
          /\ SameName(f) = {}
          /\ \E r \in Range(refFiles) : RefBytes(r) = files0[f].bytes
          /\ \E k \in DOMAIN outcome : k[2] = f /\ outcome[k] = "skip_name"

-----------------------------------------------------------------------------
(* C8 *)

\* C8: a file of a target root that has the base name of a reference file
\* and the content of none of the reference files of that name is left at
\* its path with its content, and is not reported as a duplicate.
C8_OtherContentUntouched ==
    Running =>
        \A f \in TargetFiles0 :
            (SameName(f) # {} /\ \A r \in SameName(f) : RefBytes(r) # files0[f].bytes)
                => /\ Kept(f)
                   /\ [msg |-> "Would trash", path |-> f] \notin log

C8_Witness ==
    /\ pc = "done" /\ ~aborted
    /\ \E f \in TargetFiles0 :
          /\ SameName(f) # {}
          /\ \A r \in SameName(f) : RefBytes(r) # files0[f].bytes
          /\ \E k \in DOMAIN outcome : k[2] = f /\ outcome[k] = "no_match"

-----------------------------------------------------------------------------
(* C9 *)

\* every file a root held when the invocation started has had its iteration
\* in the deduplicate_directory of that root, unless an earlier one moved it
AllProcessed ==
    \A i \in 1..Len(Targets) :
        \A f \in DOMAIN files0 :
            IsParentOf(Targets[i], f) =>
                \/ <<i, f>> \in DOMAIN outcome
                \/ \E j \in 1..i : <<j, f>> \in MovedKeys

\* C9: an iteration that fails on hashing or on a collision leaves its file
\* in place, and the invocation still gives every file of every root its
\* iteration.
C9_FailSoft ==
    /\ \A k \in FailedKeys :
          k[1] = rootIdx => (k[2] \in DOMAIN files /\ files[k[2]] = passFiles0[k[2]])
    /\ (pc = "done" /\ ~aborted) => AllProcessed

C9_Witness ==
    /\ pc = "done" /\ ~aborted
    /\ \E k1 \in FailedKeys : \E k2 \in FailedKeys : \E k3 \in MovedKeys :
          /\ outcome[k1] = "hash_error"
          /\ outcome[k2] = "collision"
          /\ k1[1] < k3[1] /\ k2[1] < k3[1]

-----------------------------------------------------------------------------
(* C10 *)

MissingRoot ==
    \E root \in Range(args.targets \o args.refs) :
        root \notin DOMAIN files0 /\ root \notin dirs0

\* C10: an invocation given a root that does not exist ends on the assertion
\* with nothing listed, nothing hashed, no iteration made and nothing changed
\* on disk.
C10_FailFast ==
    (pc # "idle" /\ MissingRoot) =>
        /\ aborted /\ pc = "done"
        /\ listed = {} /\ refFiles = <<>>
        /\ hashed = {}
        /\ outcome = NoOutcome
        /\ files = files0 /\ dirs = dirs0

C10_Witness ==
    /\ pc = "done" /\ aborted /\ ~args.dry
    /\ MissingRoot
    /\ \E f \in TargetFiles0 : \E r \in DOMAIN files0 :
          /\ IsParentOf(R, r)
          /\ R \in Range(args.refs)
          /\ files0[f].readable /\ files0[r].readable
          /\ Fingerprint(files0[f].bytes, Name(f)) = Fingerprint(files0[r].bytes, Name(r))

-----------------------------------------------------------------------------
(* C11 *)

\* the directory d of the filesystem fs holds, at some depth, a file that is
\* not a marker file
HoldsFile(fs, d) == \E f \in DOMAIN fs : IsParentOf(d, f) /\ Name(f) # ".DS_Store"

\* the directories of a target root, outside its trash, that held a file when
\* the invocation started
HeldFile0 ==
    {d \in dirs0 : /\ HoldsFile(files0, d)
                   /\ \E i \in 1..Len(Targets) :
                         /\ IsParentOf(Targets[i], d)
                         /\ d # Targets[i] \o <<"deduplicator_trash">>
                         /\ ~IsParentOf(Targets[i] \o <<"deduplicator_trash">>, d)}

\* C11: when a non-dry-run invocation has ended, every directory of a target
\* root that the moves have left without any file is removed.
C11_EmptiedDirectoriesRemoved ==
    (pc = "done" /\ ~aborted /\ ~args.dry) =>
        \A d \in HeldFile0 : ~HoldsFile(files, d) => d \notin dirs

-----------------------------------------------------------------------------
(* C12 *)

\* the step is a call get_file_hash(p), and the last call get_file_hash(p)
\* before it returned a fingerprint
CallsAgain(p) ==
    /\ nCalls' # nCalls
    /\ lastCall'.path = p
    /\ p \in DOMAIN callHist
    /\ ~callHist[p].err

HashesNothing == ~lastCall'.read /\ hashReads' = hashReads

-----------------------------------------------------------------------------
(* C13 *)

\* f of the root is where the deduplicate_directory found it, whole, and
\* nothing of it is in the trash
Untouched(f, root) ==
    LET d == MirrorPath(f, root) IN
    /\ f \in DOMAIN files /\ files[f] = passFiles0[f]
    /\ d \in DOMAIN files => (d \in DOMAIN passFiles0 /\ files[d] = passFiles0[d])

\* f of the root is gone from its path and whole at its place in the trash
FullyMoved(f, root) ==
    LET d == MirrorPath(f, root) IN
    /\ f \notin DOMAIN files
    /\ d \in DOMAIN files /\ d \notin DOMAIN passFiles0
    /\ files[d] = passFiles0[f]

\* C13: in every state of a non-dry-run deduplicate_directory, the state a
\* run interrupted there would leave, every file of the root is either
\* moved as a whole or untouched: never lost, duplicated or half-written.
C13_MovedOrUntouched ==
    (pc = "dedup" /\ ~args.dry) =>
        \A f \in DOMAIN passFiles0 :
            IsParentOf(DirectoryPath, f) =>
                (Untouched(f, DirectoryPath) \/ FullyMoved(f, DirectoryPath))

-----------------------------------------------------------------------------
(* C14 *)

\* p lies in the trash of the root being deduplicated
InOwnTrash(p) == IsParentOf(DirectoryPath \o <<"deduplicator_trash">>, p)

\* the paths on which the step calls hashfile
NewlyHashed ==
    {p \in DOMAIN hashReads' : p \notin DOMAIN hashReads \/ hashReads'[p] # hashReads[p]}

\* the files the step prints as duplicates or as failed
Reported ==
    {m.path : m \in {x \in log' \ log : x.msg \in {"Would trash", "Could not deduplicate"}}}

\* the files the step takes from their path
Taken == DOMAIN files \ DOMAIN files'

\* the iterations the step makes
NewKeys == DOMAIN outcome' \ DOMAIN outcome

\* C14 as stated: no step of deduplicate_directory hashes, reports or moves a
\* file that lies in the trash of its root.
C14_TrashNeverHashed ==
    [][pc = "dedup" => \A p \in NewlyHashed \cup Reported \cup Taken : ~InOwnTrash(p)]_vars

\* C14 amended: no step reports or moves a file of the trash of its root, the
\* iteration on such a file does nothing at all, and such a file is hashed
\* only as a listed reference file that has the name of the file of the
\* iteration.
C14_TrashNeverProcessed ==
    [][pc = "dedup" =>
          /\ \A p \in Reported \cup Taken : ~InOwnTrash(p)
          /\ \A k \in NewKeys :
                /\ InOwnTrash(k[2]) =>
                      /\ outcome'[k] = "skip_trash"
                      /\ NewlyHashed = {}
                      /\ files' = files /\ dirs' = dirs /\ log' = log
                /\ \A p \in NewlyHashed :
                      InOwnTrash(p) =>
                          /\ p \in Range(refFiles)
                          /\ p # k[2]
                          /\ Name(p) = Name(k[2])]_vars

\* a file moved to the trash by this deduplicate_directory has then had its
\* own iteration, although a reference file has its name and content
C14_Witness ==
    /\ pc = "dedup" /\ ~args.dry
    /\ \E k1 \in MovedKeys : \E k2 \in DOMAIN outcome :
          /\ k1[1] = rootIdx /\ k2[1] = rootIdx
          /\ k2[2] = Dest(k1)
          /\ outcome[k2] = "skip_trash"
          /\ \E r \in SameName(k2[2]) :
                r \in DOMAIN files /\ files[r] = files[k2[2]] /\ files[r].readable

-----------------------------------------------------------------------------
(* C15 *)

\* p is a file of the root being deduplicated that is no candidate: it is in
\* the trash of the root, or hidden, or no reference file has its name
NoCandidate(p) ==
    /\ IsParentOf(DirectoryPath, p)
    /\ \/ InOwnTrash(p)
       \/ FirstChar(Name(p)) = "."
       \/ SameName(p) = {}

\* p is the file of the iteration k or a reference file of its name
HashedFor(p, k) == p = k[2] \/ (p \in Range(refFiles) /\ Name(p) = Name(k[2]))

\* C15 as stated: a step of deduplicate_directory hashes no file of the root
\* that is in the trash, hidden or without a reference file of its name; it
\* hashes only the file of its iteration and reference files of that name.
C15_OnlyCandidatesHashed ==
    [][pc = "dedup" =>
          \A k \in NewKeys : \A p \in NewlyHashed : HashedFor(p, k) /\ ~NoCandidate(p)]_vars

\* C15 amended: the iteration on a file of the root that is in the trash,
\* hidden or without a reference file of its name hashes nothing, and any
\* iteration hashes only its file and reference files of that name (which
\* may lie in the trash of the root).
C15_OnlyForCandidatesHashed ==
    [][pc = "dedup" =>
          \A k \in NewKeys :
              /\ NoCandidate(k[2]) =>
                    /\ NewlyHashed = {}
                    /\ hashCache' = hashCache
                    /\ outcome'[k] \in {"skip_trash", "skip_hidden", "skip_name"}
              /\ \A p \in NewlyHashed : HashedFor(p, k)]_vars

\* an invocation has skipped a hidden file and a file of the trash or of no
\* reference name, and has hashed a file together with a reference file
C15_Witness ==
    /\ pc = "done" /\ ~aborted
    /\ \E k1 \in DOMAIN outcome : \E k2 \in DOMAIN outcome : \E k3 \in DOMAIN outcome :
          /\ outcome[k1] = "skip_hidden"
          /\ outcome[k2] \in {"skip_trash", "skip_name"}
          /\ outcome[k3] \in {"moved", "no_match", "would_trash"}
          /\ k3[2] \in hashed
          /\ \E r \in SameName(k3[2]) : r # k3[2] /\ r \in hashed
          /\ k1[2] \notin hashed /\ k2[2] \notin hashed

-----------------------------------------------------------------------------
(* C16 *)

\* the step is a call get_file_hash(p) after a call get_file_hash(p) that
\* failed, and the file can now be read
CallsAfterFailure(p) ==
    /\ nCalls' # nCalls
    /\ lastCall'.path = p
    /\ p \in DOMAIN callHist /\ callHist[p].err
    /\ p \in DOMAIN files /\ files[p].readable

\* C16: a call get_file_hash(p) that fails leaves the cache as it was, with
\* no entry for p; the next call get_file_hash(p), once the file can be read,
\* reads the file and returns its fingerprint.
C16_FailureNotCached ==
    [][\A p \in CachePaths :
          /\ (nCalls' # nCalls /\ lastCall'.path = p /\ lastCall'.err) =>
                 (p \notin DOMAIN hashCache' /\ hashCache' = hashCache)
          /\ CallsAfterFailure(p) =>
                 /\ ~lastCall'.err
                 /\ lastCall'.read
                 /\ hashReads'[p] = hashReads[p] + 1
                 /\ lastCall'.hash = [content |-> files[p].bytes, name |-> Name(p)]
                 /\ hashCache'[p] = lastCall'.hash]_vars

\* a file that could not be read when asked for has become readable and has
\* been hashed by a later call
C16_Witness ==
    /\ lastCall.path \in DOMAIN files0
    /\ ~files0[lastCall.path].readable
    /\ ~lastCall.err /\ lastCall.read
    /\ hashReads[lastCall.path] = 2
    /\ lastCall.path \in DOMAIN hashCache

-----------------------------------------------------------------------------
(* C17 *)

\* the regular files of the filesystem fs at or below root
FilesUnder(fs, root) == {p \in DOMAIN fs : p = root \/ IsParentOf(root, p)}

\* C17 as stated: the reference files of an invocation are the regular files
\* that its reference roots hold when it starts.
C17_ReferenceListingFresh ==
    Running =>
        Range(refFiles) = UNION {FilesUnder(files0, root) : root \in Range(args.refs)}

\* the step starts an invocation that gets past the assertions
Invokes == runNo' # runNo /\ ~aborted'

\* the step ends the deduplicate_directory of a root
EndsPass == pc = "dedup" /\ (rootIdx' # rootIdx \/ pc' = "done")

\* C17 amended: yield_files follows the disk (an iteration is made on a file
\* that is on disk under the root, and the loop ends when every such file has
\* had one); cached_get_files lists from disk the roots it has not been
\* given before in the process, and returns for the others the list it
\* remembers.
C17_TargetsFreshReferencesCached ==
    [][/\ \A k \in NewKeys : k[2] \in DOMAIN files /\ IsParentOf(DirectoryPath, k[2])
       /\ EndsPass =>
             \A f \in DOMAIN files :
                 IsParentOf(DirectoryPath, f) => <<rootIdx, f>> \in DOMAIN outcome
       /\ Invokes =>
             \A root \in Range(args'.refs) :
                 IF root \in listed'
                 THEN Range(filesCache'[<<root, TRUE>>]) = FilesUnder(files, root)
                 ELSE /\ <<root, TRUE>> \in DOMAIN filesCache
                      /\ filesCache'[<<root, TRUE>>] = filesCache[<<root, TRUE>>]]_vars

\* the second invocation of a process has got the remembered list of
\* reference files, one of which is gone, and its loop has had a file that
\* the first invocation put there
C17_Witness ==
    /\ pc = "done" /\ ~aborted
    /\ runNo = 2 /\ listed = {}
    /\ \E r \in Range(refFiles) : r \notin DOMAIN files0
    /\ \E k \in DOMAIN outcome : k[2] \notin DOMAIN seen \/ k[2] \notin Range(refFiles)

-----------------------------------------------------------------------------
(* C18 *)

\* the entries of the directory d
Entries(fs, ds, d) == {p \in DOMAIN fs \cup ds : Parent(p) = d /\ Len(p) = Len(d) + 1}

\* emptiness by recursion on the entries: each is a marker file or an empty
\* directory
RECURSIVE RecursivelyEmpty(_, _, _)
RecursivelyEmpty(fs, ds, d) ==
    \A e \in Entries(fs, ds, d) :
        \/ e \in DOMAIN fs /\ Name(e) = ".DS_Store"
        \/ e \in ds /\ RecursivelyEmpty(fs, ds, e)

\* the step removes only directories that are recursively empty, and with
\* them only marker files
RemovesEmptyOnly ==
    /\ \A d \in dirs \ dirs' : RecursivelyEmpty(files, dirs, d)
    /\ \A g \in DOMAIN files \ DOMAIN files' : Name(g) = ".DS_Store"
    /\ \A g \in DOMAIN files' : g \in DOMAIN files /\ files'[g] = files[g]

\* C18: on every directory of every tree, is_dir_empty is true exactly when
\* the directory is recursively empty, that is when no file other than
\* .DS_Store lies below it; and remove_empty_dirs removes only directories
\* that are empty in this sense, and with them no file other than .DS_Store.
C18_EmptyAsDefined ==
    /\ [](\A d \in dirs :
            /\ IsDirEmpty(files, dirs, d) <=> RecursivelyEmpty(files, dirs, d)
            /\ IsDirEmpty(files, dirs, d) <=> ~HoldsFile(files, d))
    /\ [][RemovesEmptyOnly]_vars

\* remove_empty_dirs has removed a directory that held marker files at two
\* depths, and has kept a directory named .DS_Store that holds a file
C18_Witness ==
    /\ pc = "cleaned"
    /\ <<"A", "s">> \in dirs0 \ dirs
    /\ {<<"A", "s", ".DS_Store">>, <<"A", "s", "t", ".DS_Store">>} \subseteq DOMAIN files0
    /\ <<"A", ".DS_Store">> \in dirs
    /\ <<"A", ".DS_Store", "f">> \in DOMAIN files

-----------------------------------------------------------------------------
(* C19 *)

\* the trash of the root held no file when its deduplicate_directory started
TrashEmpty0 ==
    \A f \in DOMAIN passFiles0 : ~IsParentOf(DirectoryPath \o <<"deduplicator_trash">>, f)

\* the iterations of the current deduplicate_directory
PassKeys == {k \in DOMAIN outcome : k[1] = rootIdx}

\* C19: in a non-dry-run deduplicate_directory on a root whose trash holds
\* no file at the start, no trash_file fails on an existing path, two moved
\* files never have the same destination, and every file found to be a
\* duplicate is moved to its place in the trash.
C19_NoCollision ==
    (pc = "dedup" /\ ~args.dry /\ TrashEmpty0) =>
        /\ \A k \in PassKeys : outcome[k] \notin {"collision", "mkdir_error"}
        /\ \A k1 \in PassKeys \cap MovedKeys : \A k2 \in PassKeys \cap MovedKeys :
                k1 # k2 => Dest(k1) # Dest(k2)
        /\ \A k \in PassKeys :
                (/\ k[2] \in DOMAIN passFiles0
                 /\ HasReferenceFingerprint(k[2])
                 /\ Movable(k[2]))
                    => /\ outcome[k] = "moved"
                       /\ Dest(k) \in DOMAIN files
                       /\ files[Dest(k)] = passFiles0[k[2]]

\* two files of one name and one content, at different depths of the root,
\* have both been moved
C19_Witness ==
    /\ PassFinished /\ ~args.dry /\ TrashEmpty0
    /\ \E k1 \in PassKeys \cap MovedKeys : \E k2 \in PassKeys \cap MovedKeys :
          /\ k1 # k2
          /\ Name(k1[2]) = Name(k2[2])
          /\ files[Dest(k1)] = files[Dest(k2)]

====
